---- MODULE Spec2Model ----
(***************************************************************************)
(* Model of haxroomie's session registry (src/src/Haxroomie.js) and of the *)
(* per-tab session controller (src/src/room/RoomController.js).            *)
(*                                                                         *)
(* Node.js runs one handler at a time: an action of this model is one run  *)
(* of JavaScript between two suspension points (an `await`), including the *)
(* listeners that EventEmitter.emit calls synchronously.  A listener may   *)
(* call back into the controller; that re-entrant call is the `react`      *)
(* input of the action and is executed inside the action, where emit runs. *)
(***************************************************************************)
EXTENDS Integers, Sequences, FiniteSets, TLC

\* ------------------------------------------------------------------ bounds
MaxRooms  == 2   \* RoomController instances constructed
MaxGet    == 2   \* getSession calls suspended at an await
MaxFlight == 2   \* controller calls suspended at an await

Null == "null"

\* identifiers handed to getSession: tag:value
ValidIds   == {"num:0", "str:a", "str:b"}
InvalidIds == {"str:", "undefined", "null"}
Ids        == ValidIds \cup InvalidIds

\* tab numbers: the default tab is 0, browser.newPage() numbers the rest
Tabs == 0..MaxRooms

Configs  == {"cfg"}
Infos    == {"info1", "info2"}
Failures == {"err"}
FnNames  == {"fn", ""}

\* the plugin names that HHM's repositories can provide
Loadable == {"y", "z"}

VARIABLES
    browser,       \* Haxroomie.browser: Null or a handle
    proc,          \* what answers on the remote-debugging port
    cb,            \* createBrowser call: where it is suspended
    pages,         \* browser.pages(): the open tabs, oldest first
    created,       \* tabs opened with browser.newPage()
    roomSessions,  \* Haxroomie.roomSessions: property key -> controller
    rooms,         \* every RoomController constructed, in order
    gets,          \* getSession calls suspended at an await
    flight,        \* controller calls suspended at an await
    remote,        \* per tab: what is inside the page
    life,          \* per controller: last room lifecycle call that succeeded
    handed,        \* per identifier: controllers getSession has returned
    anyGet,        \* a getSession call passed its argument checks before
    step           \* what the last handler run did, in order

vars == <<browser, proc, cb, pages, created, roomSessions, rooms, gets,
          flight, remote, life, handed, anyGet, step>>

regVars == <<browser, proc, cb, created, roomSessions, gets, handed, anyGet>>

\* ------------------------------------------------------- property keys
\* roomSessions is a plain object: an identifier is converted to a
\* property key, so the number 0 and the string "0" name one slot.
Key(id) ==
    CASE id = "num:0"     -> "0"
      [] id = "str:a"     -> "a"
      [] id = "str:b"     -> "b"
      [] id = "str:"      -> ""
      [] id = "undefined" -> "undefined"
      [] id = "null"      -> "null"

Keys == {Key(id) : id \in Ids}

\* JavaScript truthiness of an identifier
Falsy(id) == id \in {"num:0", "str:", "undefined", "null"}

\* ------------------------------------------------------- the step log
Ev(k, room, name, arg, out, val, st) ==
    [k |-> k, room |-> room, name |-> name, arg |-> arg, out |-> out,
     val |-> val, st |-> st]

Snap(w, r) ==
    [usable       |-> w.rooms[r].usable,
     roomInfo     |-> w.rooms[r].roomInfo,
     openRoomLock |-> w.rooms[r].openRoomLock]

Log(w, e) == [w EXCEPT !.step = Append(@, e)]

NoReact == [op |-> "none", arg |-> Null]

World ==
    [rooms |-> rooms, flight |-> flight, remote |-> remote, life |-> life,
     step |-> <<>>]

RemoveAt(s, i) == [j \in 1..(Len(s) - 1) |-> IF j < i THEN s[j] ELSE s[j + 1]]

\* ================================================== the page
\* a tab's page before anything ran in it: alive (neither crashed nor
\* closed), no room open, no plugin configured through setPluginConfig,
\* none disabled through disablePlugin
NewContext ==
    [alive |-> TRUE, open |-> FALSE, config |-> {}, disabled |-> {}]

\* the page is gone: it crashed, was closed, or its process ended
Gone(w, p) == [w EXCEPT !.remote[p].alive = FALSE, !.remote[p].open = FALSE]

\* RoomOpener.open has settled with res: a room is online in the page
\* when it resolved; when it failed the room that was open has survived
\* it (keep) or not
roomOpenerOpen(w, p, res, keep) ==
    IF res.ok THEN [w EXCEPT !.remote[p].open = w.remote[p].alive]
    ELSE [w EXCEPT !.remote[p].open = @ /\ keep]

\* RoomOpener.close has settled with res
roomOpenerClose(w, p, res) ==
    IF res.ok THEN [w EXCEPT !.remote[p].open = FALSE] ELSE w

\* manager.getPluginId(name) >= 0, or manager.addPluginByName(name) >= 0
Resolves(w, p, name) == name \in w.remote[p].config \cup Loadable

CannotLoad == "Cannot load plugin"

\* the function setPluginConfig evaluates in the page, for one plugin:
\* what page.evaluate can settle with
ConfigResults(w, p, name) ==
    IF ~w.remote[p].alive THEN {[ok |-> FALSE, val |-> "err"]}
    ELSE IF Resolves(w, p, name)
    THEN {[ok |-> TRUE, val |-> Null], [ok |-> FALSE, val |-> "err"]}
    ELSE {[ok |-> FALSE, val |-> CannotLoad]}

\* ... and what it has done in the page when it settles with res
remoteSetConfig(w, p, name, res) ==
    IF res.ok THEN [w EXCEPT !.remote[p].config = @ \cup {name}] ELSE w

\* window.hroomie.disablePlugin(names) has settled: the plugins are
\* disabled in the given order up to the first that fails, at position
\* failAt (0: none fails); what was disabled before stays disabled
hroomieDisablePlugin(w, p, names, failAt) ==
    LET done == IF failAt = 0 THEN Len(names) ELSE failAt - 1
    IN  [w EXCEPT !.remote[p].disabled =
             @ \cup {names[j] : j \in 1..done}]

\* ================================================== RoomController
\* new RoomController({page, id}): the fields the constructor sets
NewRoom(page, id) ==
    [id |-> id, page |-> page, usable |-> TRUE, roomInfo |-> Null,
     openRoomLock |-> FALSE]

\* get running()
running(room) == room.roomInfo # Null

RECURSIVE emit(_, _, _, _, _)
RECURSIVE invoke(_, _, _, _, _)
RECURSIVE openRoom(_, _, _, _)

\* the promise of an async method that threw before its first await
Throw(w, r, op, arg, err) ==
    Log(w, Ev("call", r, op, arg, "throw", err, Snap(w, r)))

\* an async method that passed its checks
Pass(w, r, op, arg) ==
    Log(w, Ev("call", r, op, arg, "pass", Null, Snap(w, r)))

\* the method suspends at `await target(...)`
Await(w, r, op, arg, pc, target) ==
    LET w1 == Log(w, Ev("invoke", r, target, arg, op, Null, Snap(w, r)))
    IN  [w1 EXCEPT !.flight =
             Append(@, [room |-> r, op |-> op, arg |-> arg, pc |-> pc])]

\* the async method's promise settles
Return(w, r, op, arg, out, val) ==
    Log(w, Ev("return", r, op, arg, out, val, Snap(w, r)))

\* EventEmitter.emit: the listeners run now, before emit returns
emit(w, r, name, payload, react) ==
    LET w1 == Log(w, Ev("emit", r, name, Null, "", payload, Snap(w, r)))
    IN  IF react.op = "none" THEN w1
        ELSE invoke(w1, r, react.op, react.arg, NoReact)

\* openRoom up to its await
openRoom(w, r, config, react) ==
    IF ~w.rooms[r].usable THEN Throw(w, r, "openRoom", config, "Unusable")
    ELSE IF w.rooms[r].openRoomLock
    THEN Throw(w, r, "openRoom", config, "AlreadyOpening")
    ELSE LET w1 == emit(Pass(w, r, "openRoom", config), r,
                        "open-room-start", config, react)
             w2 == [w1 EXCEPT !.rooms[r].openRoomLock = TRUE]
         IN  Await(w2, r, "openRoom", config, "open", "roomOpener.open")

\* a variant that marks the controller usable again when a room opens
openRoomResumeRevives(w, r, config, res, react) ==
    IF res.ok
    THEN LET w1 == [w EXCEPT !.rooms[r].roomInfo = res.val,
                             !.rooms[r].usable = TRUE,
                             !.life[r] = "opened"]
             w2 == [w1 EXCEPT !.rooms[r].openRoomLock = FALSE]
             w3 == emit(w2, r, "open-room-stop", w2.rooms[r].roomInfo, react)
         IN  Return(w3, r, "openRoom", config, "value", w3.rooms[r].roomInfo)
    ELSE LET w1 == [w EXCEPT !.rooms[r].openRoomLock = FALSE]
             w2 == emit(w1, r, "open-room-error", res.val, react)
         IN  Return(w2, r, "openRoom", config, "void", Null)

\* a variant that raises the rejection to the caller as well
openRoomResumeRethrows(w, r, config, res, react) ==
    IF res.ok
    THEN LET w1 == [w EXCEPT !.rooms[r].roomInfo = res.val,
                             !.life[r] = "opened"]
             w2 == [w1 EXCEPT !.rooms[r].openRoomLock = FALSE]
             w3 == emit(w2, r, "open-room-stop", w2.rooms[r].roomInfo, react)
         IN  Return(w3, r, "openRoom", config, "value", w3.rooms[r].roomInfo)
    ELSE LET w1 == [w EXCEPT !.rooms[r].openRoomLock = FALSE]
             w2 == emit(w1, r, "open-room-error", res.val, react)
         IN  Return(w2, r, "openRoom", config, "throw", res.val)

\* a variant that emits 'open-room-stop' before it clears the lock
openRoomResumeStopsLocked(w, r, config, res, react) ==
    IF res.ok
    THEN LET w1 == [w EXCEPT !.rooms[r].roomInfo = res.val,
                             !.life[r] = "opened"]
             w2 == emit(w1, r, "open-room-stop", w1.rooms[r].roomInfo, react)
             w3 == [w2 EXCEPT !.rooms[r].openRoomLock = FALSE]
         IN  Return(w3, r, "openRoom", config, "value", w3.rooms[r].roomInfo)
    ELSE LET w1 == [w EXCEPT !.rooms[r].openRoomLock = FALSE]
             w2 == emit(w1, r, "open-room-error", res.val, react)
         IN  Return(w2, r, "openRoom", config, "void", Null)

\* a variant whose catch block leaves the lock set
openRoomResumeKeepsLock(w, r, config, res, react) ==
    IF res.ok
    THEN LET w1 == [w EXCEPT !.rooms[r].roomInfo = res.val,
                             !.life[r] = "opened"]
             w2 == [w1 EXCEPT !.rooms[r].openRoomLock = FALSE]
             w3 == emit(w2, r, "open-room-stop", w2.rooms[r].roomInfo, react)
         IN  Return(w3, r, "openRoom", config, "value", w3.rooms[r].roomInfo)
    ELSE LET w2 == emit(w, r, "open-room-error", res.val, react)
         IN  Return(w2, r, "openRoom", config, "void", Null)

\* openRoom after its await: res is what roomOpener.open settled with
openRoomResume(w, r, config, res, react) ==
    IF res.ok
    THEN LET w1 == [w EXCEPT !.rooms[r].roomInfo = res.val,
                             !.life[r] = "opened"]
             w2 == [w1 EXCEPT !.rooms[r].openRoomLock = FALSE]
             w3 == emit(w2, r, "open-room-stop", w2.rooms[r].roomInfo, react)
         IN  Return(w3, r, "openRoom", config, "value", w3.rooms[r].roomInfo)
    ELSE LET w1 == [w EXCEPT !.rooms[r].openRoomLock = FALSE]
             w2 == emit(w1, r, "open-room-error", res.val, react)
         IN  Return(w2, r, "openRoom", config, "void", Null)

\* a variant that closes a room only when one is running
closeRoomIfRunning(w, r) ==
    IF ~w.rooms[r].usable THEN Throw(w, r, "closeRoom", Null, "Unusable")
    ELSE IF ~running(w.rooms[r])
    THEN Throw(w, r, "closeRoom", Null, "NotRunning")
    ELSE Await(Pass(w, r, "closeRoom", Null), r, "closeRoom", Null,
               "close", "roomOpener.close")

\* closeRoom up to its await
closeRoom(w, r) ==
    IF ~w.rooms[r].usable THEN Throw(w, r, "closeRoom", Null, "Unusable")
    ELSE Await(Pass(w, r, "closeRoom", Null), r, "closeRoom", Null,
               "close", "roomOpener.close")

\* a variant that emits 'close-room' without clearing roomInfo
closeRoomResumeKeeps(w, r, res, react) ==
    IF res.ok
    THEN LET w1 == [w EXCEPT !.life[r] = IF @ = "none" THEN @ ELSE "closed"]
             w2 == emit(w1, r, "close-room", Null, react)
         IN  Return(w2, r, "closeRoom", Null, "void", Null)
    ELSE Return(w, r, "closeRoom", Null, "throw", res.val)

\* closeRoom after its await
closeRoomResume(w, r, res, react) ==
    IF res.ok
    THEN LET w1 == [w EXCEPT !.rooms[r].roomInfo = Null,
                             !.life[r] = IF @ = "none" THEN @ ELSE "closed"]
             w2 == emit(w1, r, "close-room", Null, react)
         IN  Return(w2, r, "closeRoom", Null, "void", Null)
    ELSE Return(w, r, "closeRoom", Null, "throw", res.val)

\* a variant that checks running before usable
callRoomRunningFirst(w, r, fn) ==
    IF ~running(w.rooms[r]) THEN Throw(w, r, "callRoom", fn, "NotRunning")
    ELSE IF ~w.rooms[r].usable THEN Throw(w, r, "callRoom", fn, "Unusable")
    ELSE IF fn = "" THEN Throw(w, r, "callRoom", fn, "InvalidArgument")
    ELSE Await(Pass(w, r, "callRoom", fn), r, "callRoom", fn,
               "eval", "page.evaluate")

\* callRoom up to its await
callRoom(w, r, fn) ==
    IF ~w.rooms[r].usable THEN Throw(w, r, "callRoom", fn, "Unusable")
    ELSE IF ~running(w.rooms[r])
    THEN Throw(w, r, "callRoom", fn, "NotRunning")
    ELSE IF fn = "" THEN Throw(w, r, "callRoom", fn, "InvalidArgument")
    ELSE Await(Pass(w, r, "callRoom", fn), r, "callRoom", fn,
               "eval", "page.evaluate")

\* a variant that hands the payload of a failure envelope to the caller
callRoomResumeReturnsError(w, r, fn, res) ==
    IF ~res.ok THEN Return(w, r, "callRoom", fn, "throw", res.val)
    ELSE IF res.val.error
    THEN Return(w, r, "callRoom", fn, "value", res.val.payload)
    ELSE Return(w, r, "callRoom", fn, "value", res.val.payload.result)

\* callRoom after its await: res is what page.evaluate settled with,
\* res.val the envelope {error, payload} when it resolved
callRoomResume(w, r, fn, res) ==
    IF ~res.ok THEN Return(w, r, "callRoom", fn, "throw", res.val)
    ELSE IF res.val.error
    THEN Return(w, r, "callRoom", fn, "throw", res.val.payload)
    ELSE Return(w, r, "callRoom", fn, "value", res.val.payload.result)

\* ------------------------------------------------ plugin management
\* the methods that check usable and running and then make one
\* page.evaluate call whose promise they hand back
SimplePluginOps ==
    {"getPlugins", "getPlugin", "enablePlugin", "disablePlugin",
     "getPluginsThatDependOn", "hasPlugin", "addPlugin",
     "getRepositories", "clearRepositories"}

\* a variant that hands page.evaluate the first name of a sequence only
pluginOpFirst(w, r, op, arg) ==
    IF ~w.rooms[r].usable THEN Throw(w, r, op, arg, "Unusable")
    ELSE IF ~running(w.rooms[r]) THEN Throw(w, r, op, arg, "NotRunning")
    ELSE Await(Pass(w, r, op, arg), r, op, <<arg[1]>>, "eval",
               "page.evaluate")

pluginOp(w, r, op, arg) ==
    IF ~w.rooms[r].usable THEN Throw(w, r, op, arg, "Unusable")
    ELSE IF ~running(w.rooms[r]) THEN Throw(w, r, op, arg, "NotRunning")
    ELSE Await(Pass(w, r, op, arg), r, op, arg, "eval", "page.evaluate")

\* addRepository(repository, append): repository "" stands for a falsy one
addRepository(w, r, repository) ==
    IF ~w.rooms[r].usable
    THEN Throw(w, r, "addRepository", repository, "Unusable")
    ELSE IF ~running(w.rooms[r])
    THEN Throw(w, r, "addRepository", repository, "NotRunning")
    ELSE IF repository = ""
    THEN Throw(w, r, "addRepository", repository, "InvalidArgument")
    ELSE Await(Pass(w, r, "addRepository", repository), r, "addRepository",
               repository, "eval", "page.evaluate")

\* setPluginConfig(pluginConfig, pluginName) up to its first await.
\* a.kind: "missing" (falsy), "other" (not an object) or "object" with
\* a.keys its entries in order; a.name is Null unless a string is passed;
\* a.at is the entry the loop is at (0 before the loop and in the scoped
\* form).
setPluginConfig(w, r, a) ==
    IF ~w.rooms[r].usable THEN Throw(w, r, "setPluginConfig", a, "Unusable")
    ELSE IF ~running(w.rooms[r])
    THEN Throw(w, r, "setPluginConfig", a, "NotRunning")
    ELSE IF a.kind = "missing"
    THEN Throw(w, r, "setPluginConfig", a, "InvalidArgument")
    ELSE IF a.kind # "object"
    THEN Throw(w, r, "setPluginConfig", a, "InvalidArgument")
    ELSE IF a.name # Null
    THEN Await(Pass(w, r, "setPluginConfig", a), r, "setPluginConfig",
               a, "eval", "page.evaluate")
    ELSE IF a.keys = <<>>
    THEN Return(Pass(w, r, "setPluginConfig", a), r, "setPluginConfig", a,
                "void", Null)
    ELSE Await(Pass(w, r, "setPluginConfig", a), r, "setPluginConfig",
               [a EXCEPT !.at = 1], "eval", "page.evaluate")

\* a variant whose loop goes on to the next entry when one has failed
setPluginConfigResumeContinues(w, r, a, res) ==
    IF a.name # Null \/ a.at = Len(a.keys)
    THEN IF res.ok THEN Return(w, r, "setPluginConfig", a, "void", Null)
         ELSE Return(w, r, "setPluginConfig", a, "throw", res.val)
    ELSE Await(w, r, "setPluginConfig", [a EXCEPT !.at = @ + 1],
               "eval", "page.evaluate")

\* a variant that catches the failure of an entry and returns
setPluginConfigResumeSwallows(w, r, a, res) ==
    IF ~res.ok THEN Return(w, r, "setPluginConfig", a, "void", Null)
    ELSE IF a.name # Null \/ a.at = Len(a.keys)
    THEN Return(w, r, "setPluginConfig", a, "void", Null)
    ELSE Await(w, r, "setPluginConfig", [a EXCEPT !.at = @ + 1],
               "eval", "page.evaluate")

\* setPluginConfig after an await: page.evaluate has settled with res for
\* the plugin name given, else for entry a.at
setPluginConfigResume(w, r, a, res) ==
    IF ~res.ok THEN Return(w, r, "setPluginConfig", a, "throw", res.val)
    ELSE IF a.name # Null \/ a.at = Len(a.keys)
    THEN Return(w, r, "setPluginConfig", a, "void", Null)
    ELSE Await(w, r, "setPluginConfig", [a EXCEPT !.at = @ + 1],
               "eval", "page.evaluate")

\* the plugin a suspended setPluginConfig call has page.evaluate work on
ConfigTarget(a) == IF a.name # Null THEN a.name ELSE a.keys[a.at]

\* getPluginConfig(pluginName): both forms start with page.evaluate
getPluginConfig(w, r, pluginName) ==
    Await(Pass(w, r, "getPluginConfig", pluginName), r, "getPluginConfig",
          pluginName, "eval", "page.evaluate")

\* a method that hands back what page.evaluate settled with
evalResume(w, r, op, arg, res) ==
    IF res.ok THEN Return(w, r, op, arg, "value", res.val)
    ELSE Return(w, r, op, arg, "throw", res.val)

\* a call on the controller, by method name
invoke(w, r, op, arg, react) ==
    CASE op = "openRoom"        -> openRoom(w, r, arg, react)
      [] op = "closeRoom"       -> closeRoom(w, r)
      [] op = "callRoom"        -> callRoom(w, r, arg)
      [] op = "addRepository"   -> addRepository(w, r, arg)
      [] op = "setPluginConfig" -> setPluginConfig(w, r, arg)
      [] op = "getPluginConfig" -> getPluginConfig(w, r, arg)
      [] OTHER                  -> pluginOp(w, r, op, arg)

\* ------------------------------------------------ page listeners
\* a variant that treats an uncaught script error as fatal
onPageErrorFatal(w, r, error, react) ==
    LET w1 == emit(w, r, "page-error", error, react)
    IN  [w1 EXCEPT !.rooms[r].usable = FALSE]

\* page.on('pageerror')
onPageError(w, r, error, react) == emit(w, r, "page-error", error, react)

\* page.on('error')
onError(w, r, error, react) ==
    LET w1 == emit(w, r, "page-crash", error, react)
    IN  [w1 EXCEPT !.rooms[r].usable = FALSE]

\* page.on('console'): msg.type is "error", "warning" or "log";
\* msg.is404 says that its text starts with the 404 resource message
onConsole(w, r, msg, react) ==
    IF msg.type = "error"
    THEN IF msg.is404 THEN w
         ELSE emit(w, r, "error-logged", msg.text, react)
    ELSE IF msg.type = "warning"
    THEN emit(w, r, "warning-logged", msg.text, react)
    ELSE w

\* page.on('close')
onClose(w, r, react) ==
    LET w1 == emit(w, r, "page-closed", Null, react)
    IN  [w1 EXCEPT !.rooms[r].usable = FALSE]

onPage(w, r, kind, x, react) ==
    CASE kind = "pageerror" -> onPageError(w, r, x, react)
      [] kind = "error"     -> onError(w, r, x, react)
      [] kind = "console"   -> onConsole(w, r, x, react)
      [] kind = "close"     -> onClose(w, r, react)

\* a page event runs the listener of every controller built on the
\* page, in the order the controllers registered
RECURSIVE dispatch(_, _, _, _, _, _)
dispatch(w, from, page, kind, x, react) ==
    IF from > Len(w.rooms) THEN w
    ELSE IF w.rooms[from].page = page
    THEN dispatch(onPage(w, from, kind, x, react), from + 1, page, kind, x,
                  react)
    ELSE dispatch(w, from + 1, page, kind, x, react)

\* ------------------------------------------------ events from the room
\* onRoomEvent(eventArgs)
onRoomEvent(w, r, eventArgs, react) ==
    emit(w, r, "room-event", eventArgs, react)

\* a variant whose switch lacks the break after its first case
onHHMEventFallsThrough(w, r, eventArgs, react) ==
    CASE eventArgs.eventType = "pluginLoaded" ->
             emit(emit(w, r, "plugin-loaded", eventArgs.pluginData, react),
                  r, "plugin-removed", eventArgs.pluginData, NoReact)
      [] eventArgs.eventType = "pluginRemoved" ->
             emit(w, r, "plugin-removed", eventArgs.pluginData, react)
      [] eventArgs.eventType = "pluginEnabled" ->
             emit(w, r, "plugin-enabled", eventArgs.pluginData, react)
      [] eventArgs.eventType = "pluginDisabled" ->
             emit(w, r, "plugin-disabled", eventArgs.pluginData, react)
      [] OTHER -> w

\* onHHMEvent(eventArgs): the switch on eventArgs.eventType
onHHMEvent(w, r, eventArgs, react) ==
    CASE eventArgs.eventType = "pluginLoaded" ->
             emit(w, r, "plugin-loaded", eventArgs.pluginData, react)
      [] eventArgs.eventType = "pluginRemoved" ->
             emit(w, r, "plugin-removed", eventArgs.pluginData, react)
      [] eventArgs.eventType = "pluginEnabled" ->
             emit(w, r, "plugin-enabled", eventArgs.pluginData, react)
      [] eventArgs.eventType = "pluginDisabled" ->
             emit(w, r, "plugin-disabled", eventArgs.pluginData, react)
      [] OTHER -> w

\* ================================================== Haxroomie
\* what a getSession or createBrowser call saw when it was made
RegSnap(id) ==
    [browser    |-> browser,
     first      |-> ~anyGet,
     registered |-> IF id \in Ids THEN roomSessions[Key(id)] # 0 ELSE FALSE,
     made       |-> 0,
     page       |-> -1]

\* a variant whose identifier check is `!sessionID` alone
getSessionCheckFalsy(b, sessionID) ==
    IF b = Null THEN "NotRunning"
    ELSE IF Falsy(sessionID) THEN "InvalidArgument"
    ELSE "ok"

\* the argument checks of getSession
getSessionCheck(b, sessionID) ==
    IF b = Null THEN "NotRunning"
    ELSE IF Falsy(sessionID) /\ sessionID # "num:0" THEN "InvalidArgument"
    ELSE "ok"

\* Object.keys(this.roomSessions).length === 0
NoSessions == \A k \in Keys : roomSessions[k] = 0

sessionVars == <<rooms, flight, remote, life>>

\* getSession up to its first await, or to its return
GetSession(sessionID) ==
    LET chk  == getSessionCheck(browser, sessionID)
        snap == RegSnap(sessionID)
        susp(pc) ==
            /\ Len(gets) < MaxGet
            /\ Len(rooms) + Len(gets) < MaxRooms
            /\ gets' = Append(gets, [id |-> sessionID, pc |-> pc,
                                     page |-> -1, st |-> snap])
            /\ anyGet' = TRUE
            /\ step' = <<Ev("call", 0, "getSession", sessionID, "pass", Null,
                            snap)>>
            /\ UNCHANGED <<browser, proc, cb, pages, created, roomSessions,
                           handed, sessionVars>>
    IN  IF chk # "ok"
        THEN /\ step' = <<Ev("call", 0, "getSession", sessionID, "throw", chk,
                             snap)>>
             /\ UNCHANGED <<regVars, pages, sessionVars>>
        ELSE IF NoSessions THEN susp("pages")
        ELSE IF roomSessions[Key(sessionID)] = 0 THEN susp("newPage")
        ELSE /\ step' = <<Ev("call", 0, "getSession", sessionID, "pass", Null,
                             snap),
                          Ev("return", roomSessions[Key(sessionID)],
                             "getSession", sessionID, "value", Null, snap)>>
             /\ handed' = [handed EXCEPT ![sessionID] =
                               @ \cup {roomSessions[Key(sessionID)]}]
             /\ anyGet' = TRUE
             /\ UNCHANGED <<browser, proc, cb, pages, created, roomSessions,
                            gets, sessionVars>>

\* browser.pages() resolved: pages[0], then initSession up to its await
GetSessionPages(i) ==
    /\ i \in 1..Len(gets)
    /\ gets[i].pc = "pages"
    /\ IF pages = <<>>
       THEN \* pages[0] is undefined: page.emulate throws a TypeError
            /\ gets' = RemoveAt(gets, i)
            /\ step' = <<Ev("return", 0, "getSession", gets[i].id, "throw",
                            "TypeError", gets[i].st)>>
       ELSE /\ gets' = [gets EXCEPT ![i].pc = "emulate", ![i].page = pages[1]]
            /\ step' = <<Ev("invoke", 0, "page.emulate", gets[i].id,
                            "getSession", Null, gets[i].st)>>
    /\ UNCHANGED <<browser, proc, cb, pages, created, roomSessions, handed,
                   anyGet, sessionVars>>

Open(page) == \E n \in 1..Len(pages) : pages[n] = page

\* browser.newPage() settled: a new tab, then initSession up to its
\* await; with the process gone the call rejects
GetSessionNewPage(i) ==
    /\ i \in 1..Len(gets)
    /\ gets[i].pc = "newPage"
    /\ IF proc = "none"
       THEN /\ gets' = RemoveAt(gets, i)
            /\ step' = <<Ev("return", 0, "getSession", gets[i].id, "throw",
                            "Error", gets[i].st)>>
            /\ UNCHANGED <<created, pages>>
       ELSE /\ created' = created + 1
            /\ pages' = Append(pages, created + 1)
            /\ gets' = [gets EXCEPT ![i].pc = "emulate",
                                    ![i].page = created + 1,
                                    ![i].st.made = @ + 1]
            /\ step' = <<Ev("invoke", 0, "page.emulate", gets[i].id,
                            "getSession", Null, gets[i].st)>>
    /\ UNCHANGED <<browser, proc, cb, roomSessions, handed, anyGet,
                   sessionVars>>

\* page.emulate() settled: the rest of initSession, and getSession
\* returns; on a tab that has closed meanwhile the call rejects
GetSessionEmulate(i) ==
    /\ i \in 1..Len(gets)
    /\ gets[i].pc = "emulate"
    /\ LET g    == gets[i]
           room == Len(rooms) + 1
       IN  IF Open(g.page)
           THEN /\ rooms' = Append(rooms, NewRoom(g.page, g.id))
                /\ life' = Append(life, "none")
                /\ roomSessions' = [roomSessions EXCEPT ![Key(g.id)] = room]
                /\ handed' = [handed EXCEPT ![g.id] = @ \cup {room}]
                /\ step' = <<Ev("return", room, "getSession", g.id, "value",
                                Null, [g.st EXCEPT !.page = g.page])>>
           ELSE /\ step' = <<Ev("return", 0, "getSession", g.id, "throw",
                                "Error", g.st)>>
                /\ UNCHANGED <<rooms, life, roomSessions, handed>>
    /\ gets' = RemoveAt(gets, i)
    /\ UNCHANGED <<browser, proc, cb, pages, created, anyGet, flight, remote>>

\* createBrowser up to its first await (getRunningBrowser's connect)
CreateBrowser ==
    /\ cb = "idle"
    /\ cb' = "connect"
    /\ step' = <<Ev("call", 0, "createBrowser", Null, "pass", Null,
                    RegSnap(Null))>>
    /\ UNCHANGED <<browser, proc, pages, created, roomSessions, gets, handed,
                   anyGet, sessionVars>>

\* puppeteer.connect settled: the rest of getRunningBrowser, then
\* createBrowser up to its throw, its return or its await of launch
CreateBrowserConnect ==
    /\ cb = "connect"
    /\ IF proc # "none"
       THEN /\ browser' = "attached"
            /\ cb' = "idle"
            /\ step' = <<Ev("return", 0, "createBrowser", Null, "throw",
                            "AlreadyRunning", RegSnap(Null))>>
       ELSE IF browser = Null
       THEN /\ cb' = "launch"
            /\ step' = <<Ev("invoke", 0, "puppeteer.launch", Null,
                            "createBrowser", Null, RegSnap(Null))>>
            /\ UNCHANGED browser
       ELSE /\ cb' = "idle"
            /\ step' = <<Ev("return", 0, "createBrowser", Null, "value",
                            browser, RegSnap(Null))>>
            /\ UNCHANGED browser
    /\ UNCHANGED <<proc, pages, created, roomSessions, gets, handed, anyGet,
                   sessionVars>>

\* puppeteer.launch resolved: a process with its default tab
CreateBrowserLaunch ==
    /\ cb = "launch"
    /\ cb' = "idle"
    /\ browser' = "launched"
    /\ proc' = "own"
    /\ pages' = <<0>>
    /\ step' = <<Ev("return", 0, "createBrowser", Null, "value", "launched",
                    RegSnap(Null))>>
    /\ UNCHANGED <<created, roomSessions, gets, handed, anyGet, sessionVars>>

\* ================================================== controller actions
Reacts ==
    {NoReact}
    \cup {[op |-> "openRoom", arg |-> c] : c \in Configs}
    \cup {[op |-> "closeRoom", arg |-> Null]}
    \cup {[op |-> "callRoom", arg |-> "fn"]}
    \cup {[op |-> "getPlugins", arg |-> Null]}

Apply(w) ==
    /\ Len(w.flight) <= MaxFlight
    /\ rooms' = w.rooms
    /\ flight' = w.flight
    /\ remote' = w.remote
    /\ life' = w.life
    /\ step' = w.step

Rooms == 1..Len(rooms)

OpenRoom(r, config, react) ==
    /\ Apply(openRoom(World, r, config, react))
    /\ UNCHANGED <<regVars, pages>>

CloseRoom(r) ==
    /\ Apply(closeRoom(World, r))
    /\ UNCHANGED <<regVars, pages>>

CallRoom(r, fn) ==
    /\ Apply(callRoom(World, r, fn))
    /\ UNCHANGED <<regVars, pages>>

PluginOp(r, op) ==
    /\ Apply(pluginOp(World, r, op, "plugin"))
    /\ UNCHANGED <<regVars, pages>>

\* disablePlugin(name): names is the sequence passed, a single name the
\* sequence of that name
DisablePlugin(r, names) ==
    /\ Apply(pluginOp(World, r, "disablePlugin", names))
    /\ UNCHANGED <<regVars, pages>>

AddRepository(r, repository) ==
    /\ Apply(addRepository(World, r, repository))
    /\ UNCHANGED <<regVars, pages>>

ConfigArgs ==
    {[kind |-> k, keys |-> <<>>, name |-> Null, at |-> 0] :
        k \in {"missing", "other"}}
    \cup {[kind |-> "object", keys |-> ks, name |-> n, at |-> 0] :
             ks \in {<<>>, <<"x">>, <<"x", "y">>}, n \in {Null, "x"}}

\* configuration maps whose entries fail or succeed at different places
FanOutArgs ==
    {[kind |-> "object", keys |-> ks, name |-> Null, at |-> 0] :
        ks \in {<<"x", "y">>, <<"y", "x", "z">>, <<"y", "z">>}}

SetPluginConfig(r, a) ==
    /\ Apply(setPluginConfig(World, r, a))
    /\ UNCHANGED <<regVars, pages>>

GetPluginConfig(r, pluginName) ==
    /\ Apply(getPluginConfig(World, r, pluginName))
    /\ UNCHANGED <<regVars, pages>>

\* what an awaited promise settles with
Ok(v)   == [ok |-> TRUE, val |-> v]
Fail(e) == [ok |-> FALSE, val |-> e]

\* the promise that suspended call i awaits settles with res
Landed(i, res) ==
    Log([World EXCEPT !.flight = RemoveAt(flight, i)],
        Ev("settle", flight[i].room,
           CASE flight[i].pc = "open"  -> "roomOpener.open"
             [] flight[i].pc = "close" -> "roomOpener.close"
             [] flight[i].pc = "eval"  -> "page.evaluate",
           flight[i].arg, IF res.ok THEN "resolve" ELSE "reject", res.val,
           Snap(World, flight[i].room)))

\* roomOpener.open settles
OpenSettles(i, react) ==
    /\ i \in 1..Len(flight)
    /\ flight[i].pc = "open"
    /\ \E res \in {Ok(v) : v \in Infos} \cup {Fail(e) : e \in Failures} :
           \E keep \in IF res.ok THEN {TRUE} ELSE BOOLEAN :
               Apply(openRoomResume(roomOpenerOpen(Landed(i, res),
                                                   rooms[flight[i].room].page,
                                                   res, keep),
                                    flight[i].room, flight[i].arg, res,
                                    react))
    /\ UNCHANGED <<regVars, pages>>

\* roomOpener.close settles
CloseSettles(i, react) ==
    /\ i \in 1..Len(flight)
    /\ flight[i].pc = "close"
    /\ \E res \in {Ok(Null)} \cup {Fail(e) : e \in Failures} :
           Apply(closeRoomResume(roomOpenerClose(Landed(i, res),
                                                 rooms[flight[i].room].page,
                                                 res),
                                 flight[i].room, res, react))
    /\ UNCHANGED <<regVars, pages>>

\* what page.evaluate can settle with for callRoom: window.hroomie's
\* envelope {error, payload}, or a rejection
CallResults ==
    <<Ok([error |-> FALSE, payload |-> [result |-> "result"]]),
      Ok([error |-> TRUE, payload |-> "remote error"]),
      Fail("err")>>

\* page.evaluate settles for callRoom
CallSettles(i) ==
    /\ i \in 1..Len(flight)
    /\ flight[i].pc = "eval"
    /\ flight[i].op = "callRoom"
    /\ \E n \in 1..Len(CallResults) :
           Apply(callRoomResume(Landed(i, CallResults[n]), flight[i].room,
                                flight[i].arg, CallResults[n]))
    /\ UNCHANGED <<regVars, pages>>

\* page.evaluate settles for a plugin method
EvalSettles(i) ==
    /\ i \in 1..Len(flight)
    /\ flight[i].pc = "eval"
    /\ flight[i].op # "callRoom"
    /\ flight[i].op \notin {"setPluginConfig", "disablePlugin"}
    /\ \E res \in {Ok("result")} \cup {Fail(e) : e \in Failures} :
           Apply(evalResume(Landed(i, res), flight[i].room, flight[i].op,
                            flight[i].arg, res))
    /\ UNCHANGED <<regVars, pages>>

\* page.evaluate settles for setPluginConfig
ConfigSettles(i) ==
    /\ i \in 1..Len(flight)
    /\ flight[i].pc = "eval"
    /\ flight[i].op = "setPluginConfig"
    /\ LET a == flight[i].arg
           p == rooms[flight[i].room].page
       IN  \E res \in ConfigResults(World, p, ConfigTarget(a)) :
               Apply(setPluginConfigResume(
                         remoteSetConfig(Landed(i, res), p, ConfigTarget(a),
                                         res),
                         flight[i].room, a, res))
    /\ UNCHANGED <<regVars, pages>>

\* page.evaluate settles for disablePlugin: in a page that is gone it
\* rejects, else a failure at failAt rejects it
DisableSettles(i) ==
    /\ i \in 1..Len(flight)
    /\ flight[i].pc = "eval"
    /\ flight[i].op = "disablePlugin"
    /\ LET names == flight[i].arg
           p     == rooms[flight[i].room].page
       IN  IF ~remote[p].alive
           THEN Apply(evalResume(Landed(i, Fail("err")), flight[i].room,
                                 "disablePlugin", names, Fail("err")))
           ELSE \E failAt \in 0..Len(names) :
                   LET res == IF failAt = 0 THEN Ok("result")
                              ELSE Fail("err")
                   IN  Apply(evalResume(
                                 hroomieDisablePlugin(Landed(i, res), p,
                                                      names, failAt),
                                 flight[i].room, "disablePlugin", names,
                                 res))
    /\ UNCHANGED <<regVars, pages>>

\* the tabs that have a controller listening
Listened == {rooms[r].page : r \in Rooms}

Messages ==
    [type : {"error", "warning", "log"}, is404 : BOOLEAN, text : {"text"}]

\* the console messages for which a listener is called
Heard(msg) ==
    \/ msg.type = "error" /\ ~msg.is404
    \/ msg.type = "warning"

\* the event the page raises, at the head of the step log
Raised(w, p, kind, x) == Log(w, Ev("event", 0, kind, x, "", p, Null))

\* the page raises 'pageerror', 'error' (a crash) or 'console', which a
\* page that has crashed does no more
PageEvent(p, kind, x, react) ==
    /\ p \in Listened
    /\ remote[p].alive
    /\ \E n \in 1..Len(pages) : pages[n] = p
    /\ Apply(dispatch(Raised(IF kind = "error" THEN Gone(World, p)
                              ELSE World, p, kind, x),
                       1, p, kind, x, react))
    /\ UNCHANGED <<regVars, pages>>

\* the page raises 'close': the tab is gone
PageClose(p, react) ==
    /\ p \in Listened
    /\ \E n \in 1..Len(pages) :
           /\ pages[n] = p
           /\ pages' = RemoveAt(pages, n)
    /\ Apply(dispatch(Raised(Gone(World, p), p, "close", Null),
                       1, p, "close", Null, react))
    /\ UNCHANGED regVars

\* what the browser hands to onRoomEvent and to onHHMEvent
RoomEventArgs == {"onPlayerJoin", "onPlayerLeave"}

HHMEventArgs ==
    [eventType : {"pluginLoaded", "pluginRemoved", "pluginEnabled",
                  "pluginDisabled", "other"},
     pluginData : {"data"}]

\* the call from the browser, at the head of the step log
Inbound(w, r, name, eventArgs) ==
    Log(w, Ev("inbound", r, name, eventArgs, "", Null, Snap(w, r)))

\* the page of controller r calls onRoomEvent
RoomEvent(r, eventArgs, react) ==
    /\ remote[rooms[r].page].alive
    /\ Apply(onRoomEvent(Inbound(World, r, "onRoomEvent", eventArgs), r,
                         eventArgs, react))
    /\ UNCHANGED <<regVars, pages>>

\* the page of controller r calls onHHMEvent
HHMEvent(r, eventArgs, react) ==
    /\ remote[rooms[r].page].alive
    /\ Apply(onHHMEvent(Inbound(World, r, "onHHMEvent", eventArgs), r,
                        eventArgs, react))
    /\ UNCHANGED <<regVars, pages>>

\* every tab of the sequence raises 'close'
RECURSIVE closeTabs(_, _)
closeTabs(w, tabs) ==
    IF tabs = <<>> THEN w
    ELSE closeTabs(dispatch(Gone(w, Head(tabs)), 1, Head(tabs), "close",
                            Null, NoReact),
                   Tail(tabs))

\* closeBrowser: browser.close() ends the process behind the handle and
\* with it every tab; this.browser keeps the handle
CloseBrowser ==
    /\ browser # Null
    /\ proc # "none"
    /\ proc' = "none"
    /\ pages' = <<>>
    /\ Apply(closeTabs(Log(World, Ev("call", 0, "closeBrowser", Null, "pass",
                                     Null, RegSnap(Null))), pages))
    /\ UNCHANGED <<browser, cb, created, roomSessions, gets, handed, anyGet>>

\* ================================================== specification
Init ==
    /\ browser = Null
    /\ proc \in {"none", "foreign"}
    /\ cb = "idle"
    /\ pages = IF proc = "foreign" THEN <<0>> ELSE <<>>
    /\ created = 0
    /\ roomSessions = [k \in Keys |-> 0]
    /\ rooms = <<>>
    /\ gets = <<>>
    /\ flight = <<>>
    /\ remote = [p \in Tabs |-> NewContext]
    /\ life = <<>>
    /\ handed = [id \in Ids |-> {}]
    /\ anyGet = FALSE
    /\ step = <<>>

RegistryNext ==
    \/ CloseBrowser
    \/ CreateBrowser
    \/ CreateBrowserConnect
    \/ CreateBrowserLaunch
    \/ \E id \in Ids : GetSession(id)
    \/ \E i \in 1..MaxGet : GetSessionPages(i)
    \/ \E i \in 1..MaxGet : GetSessionNewPage(i)
    \/ \E i \in 1..MaxGet : GetSessionEmulate(i)

LifecycleNext ==
    \/ \E r \in Rooms, c \in Configs, x \in Reacts : OpenRoom(r, c, x)
    \/ \E r \in Rooms : CloseRoom(r)
    \/ \E r \in Rooms, fn \in FnNames : CallRoom(r, fn)
    \/ \E i \in 1..MaxFlight, x \in Reacts : OpenSettles(i, x)
    \/ \E i \in 1..MaxFlight, x \in Reacts : CloseSettles(i, x)
    \/ \E i \in 1..MaxFlight : CallSettles(i)

PageNext ==
    \/ \E p \in 0..MaxRooms, x \in Reacts :
           PageEvent(p, "pageerror", "page error", x)
    \/ \E p \in 0..MaxRooms, x \in Reacts :
           PageEvent(p, "error", "crash", x)
    \/ \E p \in 0..MaxRooms, m \in Messages :
           \E x \in IF Heard(m) THEN Reacts ELSE {NoReact} :
               PageEvent(p, "console", m, x)
    \/ \E p \in 0..MaxRooms, x \in Reacts : PageClose(p, x)

PluginNext ==
    \/ \E r \in Rooms, op \in SimplePluginOps \ {"disablePlugin"} :
           PluginOp(r, op)
    \/ \E r \in Rooms : DisablePlugin(r, <<"a">>)
    \/ \E r \in Rooms, repo \in {"", "repo"} : AddRepository(r, repo)
    \/ \E r \in Rooms, a \in ConfigArgs : SetPluginConfig(r, a)
    \/ \E r \in Rooms, n \in {Null, "x"} : GetPluginConfig(r, n)
    \/ \E i \in 1..MaxFlight : EvalSettles(i)
    \/ \E i \in 1..MaxFlight : ConfigSettles(i)
    \/ \E i \in 1..MaxFlight : DisableSettles(i)

Next == RegistryNext \/ LifecycleNext \/ PageNext \/ PluginNext

Spec == Init /\ [][Next]_vars

\* the registry after createBrowser launched a process and the first
\* getSession("a") returned: one controller on the default tab
SessionInit ==
    /\ browser = "launched"
    /\ proc = "own"
    /\ cb = "idle"
    /\ pages = <<0>>
    /\ created = 0
    /\ roomSessions = [k \in Keys |-> IF k = "a" THEN 1 ELSE 0]
    /\ rooms = <<NewRoom(0, "str:a")>>
    /\ gets = <<>>
    /\ flight = <<>>
    /\ remote = [p \in Tabs |-> NewContext]
    /\ life = <<"none">>
    /\ handed = [id \in Ids |-> IF id = "str:a" THEN {1} ELSE {}]
    /\ anyGet = TRUE
    /\ step = <<>>

\* one controller: the room lifecycle, its page's events, and one guarded
\* and one unguarded plugin method
SessionNext ==
    \/ LifecycleNext
    \/ PageNext
    \/ \E r \in Rooms : PluginOp(r, "getPlugins")
    \/ \E r \in Rooms : GetPluginConfig(r, Null)
    \/ \E i \in 1..MaxFlight : EvalSettles(i)

SpecSession == SessionInit /\ [][SessionNext]_vars

\* one controller: every plugin method, with the room opened and closed
\* and the page crashing or closing while no listener calls back
PluginsNext ==
    \/ PluginNext
    \/ \E r \in Rooms, c \in Configs : OpenRoom(r, c, NoReact)
    \/ \E r \in Rooms : CloseRoom(r)
    \/ \E i \in 1..MaxFlight : OpenSettles(i, NoReact)
    \/ \E i \in 1..MaxFlight : CloseSettles(i, NoReact)
    \/ \E p \in 0..MaxRooms : PageEvent(p, "error", "crash", NoReact)
    \/ \E p \in 0..MaxRooms : PageClose(p, NoReact)

SpecPlugins == SessionInit /\ [][PluginsNext]_vars

\* one controller: setPluginConfig over several entries and disablePlugin
\* over several names, with the room opened and the page crashing
ConfigNext ==
    \/ \E r \in Rooms, c \in Configs : OpenRoom(r, c, NoReact)
    \/ \E i \in 1..MaxFlight : OpenSettles(i, NoReact)
    \/ \E r \in Rooms, a \in FanOutArgs : SetPluginConfig(r, a)
    \/ \E i \in 1..MaxFlight : ConfigSettles(i)
    \/ \E r \in Rooms : DisablePlugin(r, <<"a", "b", "c">>)
    \/ \E i \in 1..MaxFlight : DisableSettles(i)
    \/ \E p \in Tabs : PageEvent(p, "error", "crash", NoReact)

SpecConfig == SessionInit /\ [][ConfigNext]_vars

\* one controller: the events its page sends while rooms are opened and
\* closed and listeners call back
InboundNext ==
    \/ \E r \in Rooms, a \in RoomEventArgs, x \in Reacts : RoomEvent(r, a, x)
    \/ \E r \in Rooms, a \in HHMEventArgs, x \in Reacts : HHMEvent(r, a, x)
    \/ \E r \in Rooms, c \in Configs : OpenRoom(r, c, NoReact)
    \/ \E i \in 1..MaxFlight : OpenSettles(i, NoReact)
    \/ \E i \in 1..MaxFlight : CloseSettles(i, NoReact)
    \/ \E i \in 1..MaxFlight : CallSettles(i)
    \/ \E i \in 1..MaxFlight : EvalSettles(i)
    \/ \E p \in Tabs : PageEvent(p, "error", "crash", NoReact)

SpecInbound == SessionInit /\ [][InboundNext]_vars

\* the registry, with the tabs crashing or closing under its controllers
RegistryPageNext ==
    \/ \E p \in 0..MaxRooms : PageEvent(p, "error", "crash", NoReact)
    \/ \E p \in 0..MaxRooms : PageClose(p, NoReact)

\* a registry on a port where nothing is running yet
RegistryInit == Init /\ proc = "none"

SpecRegistry == RegistryInit /\ [][RegistryNext \/ RegistryPageNext]_vars

\* the registry on a port where nothing or another program's browser
\* answers
SpecEndpoint == Init /\ [][RegistryNext \/ RegistryPageNext]_vars

\* ================================================== properties
Events(k, name) ==
    {i \in DOMAIN step : step[i].k = k /\ step[i].name = name}

\* ---------------------------------------------------------------- C1
\* C1: every controller is usable when it is constructed, and a
\* controller that is not usable is not usable after any further step
\* (openRoom, closeRoom, callRoom, plugin methods, settling calls and
\* page events).
UsableMonotonic ==
    /\ \A r \in Rooms : rooms[r].usable
    /\ [][/\ Len(rooms') >= Len(rooms)
          /\ \A r \in Rooms : ~rooms[r].usable => ~rooms'[r].usable
          /\ \A r \in (Len(rooms) + 1)..Len(rooms') : rooms'[r].usable]_vars

\* an openRoom that was in flight when the page crashed or closed
\* completes on the controller that is no longer usable
UsableMonotonicWitness ==
    \E i \in Events("return", "openRoom") :
        /\ step[i].out = "value"
        /\ ~rooms[step[i].room].usable

\* ---------------------------------------------------------------- C2
\* C2: on every controller at most one roomOpener.open is in flight,
\* also when a listener of 'open-room-start' calls openRoom.
OneOpenInFlight ==
    \A r \in Rooms :
        Cardinality({i \in 1..Len(flight) :
                        flight[i].room = r /\ flight[i].pc = "open"}) <= 1

\* ---------------------------------------------------------------- C3
\* C3: when openRoom resolves with a RoomInfo, roomInfo is that RoomInfo
\* and running is true; when closeRoom resolves, roomInfo is null and
\* running is false.
ResolvedState ==
    /\ \A i \in Events("return", "openRoom") :
           step[i].out = "value" =>
               /\ step[i].val \in Infos
               /\ step[i].st.roomInfo = step[i].val
               /\ running(rooms[step[i].room])
    /\ \A i \in Events("return", "closeRoom") :
           step[i].out = "void" =>
               /\ step[i].st.roomInfo = Null
               /\ ~running(rooms[step[i].room])

\* closeRoom resolves on a controller whose room an openRoom had opened
ResolvedStateWitness ==
    \E i \in Events("return", "closeRoom") :
        /\ step[i].out = "void"
        /\ life[step[i].room] = "closed"

\* ---------------------------------------------------------------- C4
\* C4: for every identifier, all getSession calls with it return the
\* same controller, and only one controller is ever constructed for it,
\* also when the calls overlap.
OneSessionPerId ==
    \A id \in ValidIds :
        /\ Cardinality(handed[id]) <= 1
        /\ Cardinality({r \in Rooms : rooms[r].id = id}) <= 1

\* ---------------------------------------------------------------- C5
\* C5: the first getSession call of a fresh registry returns a controller
\* on the default tab and opens no tab; a later call with an identifier
\* that is not registered opens exactly one tab; a call with a registered
\* identifier opens none.
TabsPerCall ==
    \A i \in Events("return", "getSession") :
        step[i].out = "value" =>
            /\ step[i].st.first =>
                   step[i].st.made = 0 /\ rooms[step[i].room].page = 0
            /\ ~step[i].st.first /\ ~step[i].st.registered =>
                   step[i].st.made = 1
            /\ step[i].st.registered => step[i].st.made = 0

\* ---------------------------------------------------------------- C6
\* C6: two controllers registered under different identifiers are never
\* bound to the same tab.
OneTabPerSession ==
    \A k1, k2 \in Keys :
        (k1 # k2 /\ roomSessions[k1] # 0 /\ roomSessions[k2] # 0) =>
            rooms[roomSessions[k1]].page # rooms[roomSessions[k2]].page

\* ---------------------------------------------------------------- C7
\* C7: getSession throws NotRunning exactly when this.browser is unset,
\* whatever the identifier; with a browser it throws InvalidArgument
\* exactly for the empty string, undefined and null, and accepts 0; a call
\* that throws opens no tab and leaves roomSessions as it was.
GetSessionRejects ==
    [][\A i \in DOMAIN step' :
          (step'[i].k = "call" /\ step'[i].name = "getSession") =>
              /\ (step'[i].out = "throw" /\ step'[i].val = "NotRunning")
                     <=> browser = Null
              /\ (step'[i].out = "throw" /\ step'[i].val = "InvalidArgument")
                     <=> (browser # Null /\ step'[i].arg \in InvalidIds)
              /\ (browser # Null /\ step'[i].arg = "num:0") =>
                     step'[i].out = "pass"
              /\ step'[i].out = "throw" =>
                     /\ roomSessions' = roomSessions
                     /\ pages' = pages
                     /\ created' = created
                     /\ gets' = gets
                     /\ rooms' = rooms]_vars

\* a call with an invalid identifier is rejected with InvalidArgument in
\* a registry where 0 was accepted and is registered
GetSessionRejectsWitness ==
    /\ \E i \in Events("call", "getSession") :
           /\ step[i].out = "throw"
           /\ step[i].val = "InvalidArgument"
    /\ roomSessions["0"] # 0

\* ---------------------------------------------------------------- C8
PluginMethods ==
    SimplePluginOps \cup {"addRepository", "setPluginConfig", "getPluginConfig"}

\* the call logged at step[i] went on to call page.evaluate
Evaluates(i) ==
    /\ i < Len(step)
    /\ step[i + 1].k = "invoke"
    /\ step[i + 1].name = "page.evaluate"
    /\ step[i + 1].out = step[i].name

\* C8: every plugin method throws Unusable on a controller that is not
\* usable and NotRunning on a usable controller without a room, and then
\* calls page.evaluate not at all.
PluginGuards ==
    \A i \in DOMAIN step :
        (step[i].k = "call" /\ step[i].name \in PluginMethods) =>
            /\ ~step[i].st.usable =>
                   /\ step[i].out = "throw"
                   /\ step[i].val = "Unusable"
                   /\ ~Evaluates(i)
            /\ (step[i].st.usable /\ step[i].st.roomInfo = Null) =>
                   /\ step[i].out = "throw"
                   /\ step[i].val = "NotRunning"
                   /\ ~Evaluates(i)

\* ---------------------------------------------------------------- C9
\* what callRoom is to answer in the state it is called in
CallRoomExpected(st, fn) ==
    IF ~st.usable THEN "Unusable"
    ELSE IF st.roomInfo = Null THEN "NotRunning"
    ELSE IF fn = "" THEN "InvalidArgument"
    ELSE "ok"

\* C9: callRoom calls page.evaluate only when the controller is usable,
\* a room is running and a function name is given; otherwise it throws
\* Unusable, else NotRunning, else InvalidArgument, and calls nothing.
\* On a usable controller it throws NotRunning before any openRoom has
\* succeeded and after a closeRoom, and passes while the room is open.
CallRoomGuards ==
    \A i \in Events("call", "callRoom") :
        LET want == CallRoomExpected(step[i].st, step[i].arg)
        IN  /\ want = "ok" => step[i].out = "pass" /\ Evaluates(i)
            /\ want # "ok" =>
                   /\ step[i].out = "throw"
                   /\ step[i].val = want
                   /\ ~Evaluates(i)
            /\ (step[i].st.usable /\ life[step[i].room] \in {"none", "closed"})
                   => want = "NotRunning"
            /\ (step[i].st.usable /\ life[step[i].room] = "opened"
                  /\ step[i].arg # "") => want = "ok"

\* callRoom throws NotRunning on a usable controller whose room was
\* opened and closed again
CallRoomGuardsWitness ==
    \E i \in Events("call", "callRoom") :
        /\ step[i].out = "throw"
        /\ step[i].val = "NotRunning"
        /\ life[step[i].room] = "closed"

\* ---------------------------------------------------------------- C10
\* C10: when roomOpener.open rejects, openRoom clears openRoomLock, emits
\* 'open-room-error' once with the rejection, emits no 'open-room-stop',
\* leaves roomInfo as it was and resolves without a value.
OpenFailure ==
    [][(/\ step' # <<>>
        /\ step'[1].k = "settle"
        /\ step'[1].name = "roomOpener.open"
        /\ step'[1].out = "reject") =>
          LET r    == step'[1].room
              errs == {i \in DOMAIN step' :
                          /\ step'[i].k = "emit"
                          /\ step'[i].room = r
                          /\ step'[i].name = "open-room-error"}
              rets == {i \in DOMAIN step' :
                          /\ step'[i].k = "return"
                          /\ step'[i].room = r
                          /\ step'[i].name = "openRoom"}
          IN  /\ Cardinality(errs) = 1
              /\ \A i \in errs :
                     /\ step'[i].val = step'[1].val
                     /\ ~step'[i].st.openRoomLock
              /\ \A i \in DOMAIN step' :
                     ~(step'[i].k = "emit" /\ step'[i].name = "open-room-stop")
              /\ Cardinality(rets) = 1
              /\ \A i \in rets :
                     step'[i].out = "void" /\ step'[i].arg = step'[1].arg
              /\ rooms'[r].roomInfo = rooms[r].roomInfo]_vars

\* roomOpener.open rejects on a controller whose room is running
OpenFailureWitness ==
    /\ step # <<>>
    /\ step[1].k = "settle"
    /\ step[1].name = "roomOpener.open"
    /\ step[1].out = "reject"
    /\ running(rooms[step[1].room])

\* ---------------------------------------------------------------- C11
\* the handler run s began when page.evaluate settled for an entry of an
\* unscoped setPluginConfig
ConfigSettled(s) ==
    /\ Len(s) >= 2
    /\ s[1].k = "settle"
    /\ s[1].name = "page.evaluate"
    /\ \/ s[2].k = "return" /\ s[2].name = "setPluginConfig"
       \/ s[2].k = "invoke" /\ s[2].out = "setPluginConfig"
    /\ s[1].arg.name = Null

\* the page.evaluate calls the handler run s made
Invokes(s) ==
    {i \in DOMAIN s : s[i].k = "invoke" /\ s[i].name = "page.evaluate"}

\* C11 as stated: when page.evaluate rejects for an entry x of an
\* unscoped setPluginConfig because x cannot be loaded, and an entry y
\* follows x, page.evaluate is called for y.
ConfigFanOut ==
    (/\ ConfigSettled(step)
     /\ step[1].out = "reject"
     /\ step[1].val = CannotLoad
     /\ step[1].arg.at < Len(step[1].arg.keys)) =>
        \E i \in Invokes(step) : step[i].arg.at = step[1].arg.at + 1

\* C11 amended: when page.evaluate settles for an entry x of an unscoped
\* setPluginConfig and x is neither loaded nor loadable, it rejects (in a
\* live page with "Cannot load plugin"), setPluginConfig throws that
\* rejection, calls page.evaluate for no further entry, and the page's
\* plugin configuration is as it was.
ConfigStopsAtFailure ==
    [][(/\ ConfigSettled(step')
        /\ ~Resolves(World, rooms[step'[1].room].page,
                     ConfigTarget(step'[1].arg))) =>
          /\ step'[1].out = "reject"
          /\ remote[rooms[step'[1].room].page].alive =>
                 step'[1].val = CannotLoad
          /\ Len(step') = 2
          /\ step'[2].k = "return"
          /\ step'[2].out = "throw"
          /\ step'[2].val = step'[1].val
          /\ Invokes(step') = {}
          /\ remote' = remote]_vars

\* setPluginConfig({x, y}) has thrown at x, which cannot be loaded, and y
\* has no configuration
ConfigStopsAtFailureWitness ==
    /\ ConfigSettled(step)
    /\ step[1].out = "reject"
    /\ step[1].val = CannotLoad
    /\ step[1].arg.keys = <<"x", "y">>
    /\ step[1].arg.at = 1
    /\ step[2].out = "throw"
    /\ "y" \notin remote[rooms[step[1].room].page].config

\* ---------------------------------------------------------------- C12
\* C12: an unscoped setPluginConfig calls page.evaluate for one entry at
\* a time, in the order of the entries: for the first when it is called,
\* for the next when the call for an entry has resolved, which has put
\* that entry's configuration in the page.  When the call for entry k
\* rejects, setPluginConfig throws the rejection, calls page.evaluate for
\* no later entry, and the configurations of entries 1..k-1 are in the
\* page as they were.
ConfigSequential ==
    [][/\ \A i \in DOMAIN step' :
             (/\ step'[i].k = "call"
              /\ step'[i].name = "setPluginConfig"
              /\ step'[i].out = "pass"
              /\ step'[i].arg.name = Null
              /\ step'[i].arg.keys # <<>>) =>
                 /\ Invokes(step') = {i + 1}
                 /\ step'[i + 1].arg = [step'[i].arg EXCEPT !.at = 1]
       /\ ConfigSettled(step') =>
             LET a == step'[1].arg
                 p == rooms[step'[1].room].page
                 before == {a.keys[j] : j \in 1..(a.at - 1)}
             IN  /\ before \subseteq remote'[p].config
                 /\ step'[1].out = "resolve" =>
                        /\ remote'[p].config =
                               remote[p].config \cup {a.keys[a.at]}
                        /\ IF a.at < Len(a.keys)
                           THEN /\ Invokes(step') = {2}
                                /\ step'[2].arg = [a EXCEPT !.at = @ + 1]
                                /\ Len(step') = 2
                           ELSE /\ Invokes(step') = {}
                                /\ step'[2].k = "return"
                                /\ step'[2].out = "void"
                 /\ step'[1].out = "reject" =>
                        /\ Invokes(step') = {}
                        /\ Len(step') = 2
                        /\ step'[2].k = "return"
                        /\ step'[2].out = "throw"
                        /\ step'[2].val = step'[1].val
                        /\ remote' = remote]_vars

\* setPluginConfig({y, x, z}) has thrown at x: y is configured, z is not
ConfigSequentialWitness ==
    /\ ConfigSettled(step)
    /\ step[1].out = "reject"
    /\ step[1].arg.keys = <<"y", "x", "z">>
    /\ step[1].arg.at = 2
    /\ step[2].out = "throw"
    /\ "y" \in remote[rooms[step[1].room].page].config
    /\ "z" \notin remote[rooms[step[1].room].page].config

\* ---------------------------------------------------------------- C13
\* the handler run s began when page.evaluate settled for disablePlugin
DisableSettled(s) ==
    /\ Len(s) >= 2
    /\ s[1].k = "settle"
    /\ s[1].name = "page.evaluate"
    /\ s[2].k = "return"
    /\ s[2].name = "disablePlugin"

CallRoomUnwraps ==
    /\ \A i \in Events("call", "callRoom") :
           step[i].out = "pass" =>
               /\ i < Len(step)
               /\ step[i + 1].k = "invoke"
               /\ step[i + 1].name = "page.evaluate"
               /\ step[i + 1].out = "callRoom"
               /\ step[i + 1].arg = step[i].arg
    /\ Cardinality({i \in Invokes(step) : step[i].out = "callRoom"})
           = Cardinality({i \in Events("call", "callRoom") :
                             step[i].out = "pass"})
    /\ \A i \in Events("return", "callRoom") :
           /\ i = 2
           /\ Len(step) = 2
           /\ step[1].k = "settle"
           /\ step[1].name = "page.evaluate"
           /\ IF step[1].out = "reject"
              THEN step[2].out = "throw" /\ step[2].val = step[1].val
              ELSE IF step[1].val.error
              THEN /\ step[2].out = "throw"
                   /\ step[2].val = step[1].val.payload
              ELSE /\ step[2].out = "value"
                   /\ step[2].val = step[1].val.payload.result

\* callRoom has thrown the payload of a failure envelope
CallRoomUnwrapsWitness ==
    /\ Len(step) = 2
    /\ step[1].k = "settle"
    /\ step[1].out = "resolve"
    /\ step[2].k = "return"
    /\ step[2].name = "callRoom"
    /\ step[2].out = "throw"
    /\ step[2].val = "remote error"

\* ---------------------------------------------------------------- C15
\* the notification a page event is forwarded as
Forwarded(kind, x) ==
    CASE kind = "pageerror" -> "page-error"
      [] kind = "error"     -> "page-crash"
      [] kind = "close"     -> "page-closed"
      [] kind = "console"   ->
             IF x.type = "error" /\ ~x.is404 THEN "error-logged"
             ELSE IF x.type = "warning" THEN "warning-logged"
             ELSE "none"

PageNotifications ==
    {"page-error", "page-crash", "page-closed", "error-logged",
     "warning-logged"}

\* C15: a page event makes every controller on the page emit the one
\* notification of its kind ('pageerror' 'page-error', 'error' 'page-crash',
\* 'close' 'page-closed', a console error other than the 404 message
\* 'error-logged', a console warning 'warning-logged', any other console
\* message none), with the event's payload and before the controller has
\* changed.  Apart from what the listeners of the notification did by
\* calling the controller, 'error' and 'close' leave usable false and
\* roomInfo and openRoomLock as they were, and 'pageerror' and 'console'
\* leave all three as they were.
PageForwarding ==
    [][(step' # <<>> /\ step'[1].k = "event") =>
          \A r \in Rooms :
              rooms[r].page = step'[1].val =>
                  LET kind  == step'[1].name
                      x     == step'[1].arg
                      want  == Forwarded(kind, x)
                      sent  == {i \in DOMAIN step' :
                                   /\ step'[i].k = "emit"
                                   /\ step'[i].room = r
                                   /\ step'[i].name \in PageNotifications}
                      last  == step'[Len(step')]
                      after == IF Len(step') = 1 THEN Snap(World, r)
                               ELSE last.st
                      fatal == kind \in {"error", "close"}
                  IN  /\ IF want = "none" THEN sent = {}
                         ELSE /\ Cardinality(sent) = 1
                              /\ \A i \in sent :
                                     /\ step'[i].name = want
                                     /\ step'[i].st = Snap(World, r)
                                     /\ step'[i].val =
                                            IF kind = "console" THEN x.text
                                            ELSE x
                      /\ rooms'[r].usable = (after.usable /\ ~fatal)
                      /\ rooms'[r].roomInfo = after.roomInfo
                      /\ rooms'[r].openRoomLock = after.openRoomLock
                      /\ (Len(step') <= 2 /\ ~fatal) =>
                             rooms'[r] = rooms[r]]_vars

\* the page has crashed under a controller with a room open and an
\* openRoom in flight: usable is false, the rest is as it was
PageForwardingWitness ==
    /\ Len(step) = 2
    /\ step[1].k = "event"
    /\ step[1].name = "error"
    /\ step[2].name = "page-crash"
    /\ step[2].st.usable
    /\ ~rooms[step[2].room].usable
    /\ running(rooms[step[2].room])
    /\ rooms[step[2].room].openRoomLock

\* ---------------------------------------------------------------- C16
\* C16: while the browser that answers on the port is one this registry
\* did not launch, createBrowser throws AlreadyRunning, this.browser stays
\* unset, no tab is opened, and getSession throws NotRunning.
ForeignNotReused ==
    proc = "foreign" =>
        /\ browser = Null
        /\ created = 0
        /\ \A i \in Events("return", "createBrowser") :
               step[i].out = "throw" /\ step[i].val = "AlreadyRunning"
        /\ \A i \in Events("call", "getSession") :
               step[i].out = "throw" /\ step[i].val = "NotRunning"

\* ---------------------------------------------------------------- C17
\* C17: a createBrowser call made while the browser this registry
\* launched is running returns the handle the registry holds, and leaves
\* that handle in this.browser.
CreateBrowserIdempotent ==
    \A i \in Events("return", "createBrowser") :
        (step[i].st.browser = "launched" /\ proc = "own") =>
            /\ step[i].out = "value"
            /\ step[i].val = "launched"
            /\ browser = "launched"

\* ---------------------------------------------------------------- C18
\* the calls of controller r suspended at pc
InFlight(r, pc) ==
    {i \in 1..Len(flight) : flight[i].room = r /\ flight[i].pc = pc}

\* C18: on a controller with no openRoom and no closeRoom in flight,
\* roomInfo is set exactly when a room is open in the controller's page.
RoomInfoTruth ==
    \A r \in Rooms :
        (InFlight(r, "open") = {} /\ InFlight(r, "close") = {}) =>
            (running(rooms[r]) <=> remote[rooms[r].page].open)

\* ---------------------------------------------------------------- C19
\* C19: openRoomLock is true exactly when one openRoom call of the
\* controller is past its guards with its roomOpener.open not settled:
\* between handler runs, and when the listeners of 'open-room-start' run.
LockTruth ==
    /\ \A r \in Rooms :
           rooms[r].openRoomLock <=> Cardinality(InFlight(r, "open")) = 1
    /\ \A i \in Events("emit", "open-room-start") :
           step[i].st.openRoomLock

\* ---------------------------------------------------------------- C20
\* the entries of the handler run s that say controller r emitted name
Emits(s, r, name) ==
    {i \in DOMAIN s :
        s[i].k = "emit" /\ s[i].room = r /\ s[i].name = name}

\* the openRoom calls of the handler run s that ended with out
OpenCalls(s, out) ==
    {i \in DOMAIN s :
        s[i].k = "call" /\ s[i].name = "openRoom" /\ s[i].out = out}

\* C20: an openRoom call that passes its guards emits 'open-room-start'
\* with its configuration, once and before it calls roomOpener.open with
\* that configuration, which it does once.  When roomOpener.open resolves
\* the controller emits 'open-room-stop' once, with the RoomInfo returned,
\* while roomInfo is that RoomInfo and openRoomLock is false, and emits no
\* 'open-room-error'; when it rejects the controller emits 'open-room-error'
\* once, with the rejection, and no 'open-room-stop'.  An openRoom call
\* that throws emits nothing, calls nothing and changes nothing.
OpenNotifications ==
    [][/\ \A i \in OpenCalls(step', "pass") :
             /\ i < Len(step')
             /\ step'[i + 1].k = "emit"
             /\ step'[i + 1].name = "open-room-start"
             /\ step'[i + 1].room = step'[i].room
             /\ step'[i + 1].val = step'[i].arg
             /\ \E j \in (i + 2)..Len(step') :
                    /\ step'[j].k = "invoke"
                    /\ step'[j].name = "roomOpener.open"
                    /\ step'[j].room = step'[i].room
                    /\ step'[j].arg = step'[i].arg
       /\ \A r \in Rooms :
             LET passed == {i \in OpenCalls(step', "pass") :
                               step'[i].room = r}
                 opens  == {j \in DOMAIN step' :
                               /\ step'[j].k = "invoke"
                               /\ step'[j].name = "roomOpener.open"
                               /\ step'[j].room = r}
             IN  /\ Cardinality(Emits(step', r, "open-room-start"))
                        = Cardinality(passed)
                 /\ Cardinality(opens) = Cardinality(passed)
       /\ (/\ step' # <<>>
           /\ step'[1].k = "settle"
           /\ step'[1].name = "roomOpener.open") =>
             LET r     == step'[1].room
                 stops == Emits(step', r, "open-room-stop")
                 errs  == Emits(step', r, "open-room-error")
             IN  IF step'[1].out = "resolve"
                 THEN /\ Cardinality(stops) = 1
                      /\ errs = {}
                      /\ \A i \in stops :
                             /\ step'[i].val = step'[1].val
                             /\ step'[i].st.roomInfo = step'[1].val
                             /\ ~step'[i].st.openRoomLock
                 ELSE /\ Cardinality(errs) = 1
                      /\ stops = {}
                      /\ \A i \in errs : step'[i].val = step'[1].val
       /\ (step' # <<>> /\ step'[1].k # "settle") =>
             \A r \in Rooms :
                 /\ Emits(step', r, "open-room-stop") = {}
                 /\ Emits(step', r, "open-room-error") = {}
       /\ \A i \in OpenCalls(step', "throw") :
             /\ step'[i].val \in {"Unusable", "AlreadyOpening"}
             /\ i < Len(step') => step'[i + 1].k \notin {"emit", "invoke"}
             /\ i = 1 =>
                    /\ Len(step') = 1
                    /\ rooms' = rooms
                    /\ flight' = flight
                    /\ remote' = remote]_vars

\* roomOpener.open has resolved on a controller whose room was running
\* already, and 'open-room-stop' is emitted
OpenNotificationsWitness ==
    /\ step # <<>>
    /\ step[1].k = "settle"
    /\ step[1].name = "roomOpener.open"
    /\ step[1].out = "resolve"
    /\ life[step[1].room] = "opened"
    /\ step[1].st.roomInfo # Null
    /\ Emits(step, step[1].room, "open-room-stop") # {}

\* ---------------------------------------------------------------- C21
\* the closeRoom calls of the handler run s
CloseCalls(s) ==
    {i \in DOMAIN s : s[i].k = "call" /\ s[i].name = "closeRoom"}

\* C21: closeRoom throws Unusable on a controller that is not usable, and
\* then calls nothing, emits nothing and changes nothing; on a usable
\* controller it calls roomOpener.close, whether a room is running or an
\* openRoom is in flight or not.  When roomOpener.close resolves, the
\* controller emits 'close-room' once, with roomInfo null by then, and
\* closeRoom returns; when it rejects, closeRoom throws the rejection, no
\* 'close-room' is emitted and the controller is as it was.  'close-room'
\* is emitted at no other time, and openRoomLock is what it was when
\* closeRoom was called and when 'close-room' is emitted.
CloseRoomContract ==
    [][/\ \A i \in CloseCalls(step') :
             IF step'[i].st.usable
             THEN /\ step'[i].out = "pass"
                  /\ i < Len(step')
                  /\ step'[i + 1].k = "invoke"
                  /\ step'[i + 1].name = "roomOpener.close"
                  /\ step'[i + 1].room = step'[i].room
                  /\ step'[i + 1].st = step'[i].st
             ELSE /\ step'[i].out = "throw"
                  /\ step'[i].val = "Unusable"
                  /\ i < Len(step') =>
                         step'[i + 1].k \notin {"emit", "invoke"}
       /\ (step' # <<>> /\ step'[1].k = "call"
              /\ step'[1].name = "closeRoom") =>
             /\ rooms' = rooms
             /\ remote' = remote
             /\ IF step'[1].out = "throw"
                THEN Len(step') = 1 /\ flight' = flight
                ELSE /\ Len(step') = 2
                     /\ Len(flight') = Len(flight) + 1
       /\ (step' # <<>> /\ step'[1].k = "settle"
              /\ step'[1].name = "roomOpener.close") =>
             LET r      == step'[1].room
                 closed == Emits(step', r, "close-room")
                 rets   == {i \in DOMAIN step' :
                               /\ step'[i].k = "return"
                               /\ step'[i].name = "closeRoom"}
             IN  /\ Cardinality(rets) = 1
                 /\ IF step'[1].out = "resolve"
                    THEN /\ closed = {2}
                         /\ step'[2].st =
                                [Snap(World, r) EXCEPT !.roomInfo = Null]
                         /\ \A i \in rets : step'[i].out = "void"
                    ELSE /\ closed = {}
                         /\ Len(step') = 2
                         /\ step'[2].k = "return"
                         /\ step'[2].out = "throw"
                         /\ step'[2].val = step'[1].val
                         /\ rooms' = rooms
       /\ (step' # <<>>
              /\ ~(step'[1].k = "settle"
                     /\ step'[1].name = "roomOpener.close")) =>
             \A r \in Rooms : Emits(step', r, "close-room") = {}]_vars

\* roomOpener.close has resolved while an openRoom was in flight on a
\* controller with a room running: roomInfo is null, the lock is held
CloseRoomContractWitness ==
    /\ Len(step) >= 2
    /\ step[1].k = "settle"
    /\ step[1].name = "roomOpener.close"
    /\ step[1].out = "resolve"
    /\ step[1].st.roomInfo # Null
    /\ step[2].st.openRoomLock
    /\ step[2].st.roomInfo = Null
    /\ InFlight(step[1].room, "open") # {}

\* ---------------------------------------------------------------- C22
\* C22: openRoomLock is never held while roomInfo is set, and
\* roomOpener.open is never called on a controller whose roomInfo is set.
OpeningExcludesRunning ==
    /\ \A r \in Rooms : ~(rooms[r].openRoomLock /\ running(rooms[r]))
    /\ \A i \in DOMAIN step :
           (step[i].k = "invoke" /\ step[i].name = "roomOpener.open") =>
               step[i].st.roomInfo = Null

\* ---------------------------------------------------------------- C23
\* C23: a slot of roomSessions that holds a controller holds that
\* controller ever after, also once the controller is not usable, and no
\* second controller is constructed for its identifier; a getSession call
\* made with a registered identifier returns the controller of the slot
\* and opens no tab.
RegistrationStable ==
    [][/\ \A k \in Keys :
             roomSessions[k] # 0 => roomSessions'[k] = roomSessions[k]
       /\ \A id \in ValidIds :
             roomSessions[Key(id)] # 0 =>
                 {r \in 1..Len(rooms') : rooms'[r].id = id}
                     = {r \in Rooms : rooms[r].id = id}
       /\ \A i \in DOMAIN step' :
             (/\ step'[i].k = "call"
              /\ step'[i].name = "getSession"
              /\ step'[i].out = "pass"
              /\ step'[i].st.registered) =>
                 /\ i < Len(step')
                 /\ step'[i + 1].k = "return"
                 /\ step'[i + 1].room = roomSessions[Key(step'[i].arg)]
                 /\ pages' = pages
                 /\ created' = created]_vars

\* ---------------------------------------------------------------- C24
\* the notification an inbound event is forwarded as
Demuxed(name, eventArgs) ==
    IF name = "onRoomEvent" THEN "room-event"
    ELSE CASE eventArgs.eventType = "pluginLoaded"   -> "plugin-loaded"
           [] eventArgs.eventType = "pluginRemoved"  -> "plugin-removed"
           [] eventArgs.eventType = "pluginEnabled"  -> "plugin-enabled"
           [] eventArgs.eventType = "pluginDisabled" -> "plugin-disabled"
           [] OTHER                                  -> "none"

InboundNotifications ==
    {"room-event", "plugin-loaded", "plugin-removed", "plugin-enabled",
     "plugin-disabled"}

\* C24: onHHMEvent with eventType pluginLoaded, pluginRemoved,
\* pluginEnabled or pluginDisabled emits 'plugin-loaded', 'plugin-removed',
\* 'plugin-enabled' or 'plugin-disabled', once and with the event's
\* pluginData, and with any other eventType emits nothing; onRoomEvent emits
\* 'room-event' once with its argument.  Apart from what the listeners of
\* the notification did by calling the controller, usable, roomInfo and
\* openRoomLock are as they were.
InboundDemux ==
    [][(step' # <<>> /\ step'[1].k = "inbound") =>
          LET r     == step'[1].room
              x     == step'[1].arg
              want  == Demuxed(step'[1].name, x)
              sent  == {i \in DOMAIN step' :
                           /\ step'[i].k = "emit"
                           /\ step'[i].name \in InboundNotifications}
              last  == step'[Len(step')]
          IN  /\ step'[1].st = Snap(World, r)
              /\ IF want = "none" THEN sent = {} /\ Len(step') = 1
                 ELSE /\ sent = {2}
                      /\ step'[2].name = want
                      /\ step'[2].room = r
                      /\ step'[2].st = Snap(World, r)
                      /\ step'[2].val =
                             IF step'[1].name = "onRoomEvent" THEN x
                             ELSE x.pluginData
              /\ rooms'[r].usable = last.st.usable
              /\ rooms'[r].roomInfo = last.st.roomInfo
              /\ rooms'[r].openRoomLock = last.st.openRoomLock
              /\ Len(step') <= 2 => rooms' = rooms]_vars

\* the page of a controller with a room running has sent pluginDisabled,
\* and 'plugin-disabled' is emitted
InboundDemuxWitness ==
    /\ Len(step) = 2
    /\ step[1].k = "inbound"
    /\ step[1].name = "onHHMEvent"
    /\ step[1].arg.eventType = "pluginDisabled"
    /\ step[2].name = "plugin-disabled"
    /\ running(rooms[step[1].room])

\* ---------------------------------------------------------------- C25
\* C25: when the listeners of 'page-crash' and of 'page-closed' run,
\* usable is false, and a method one of them calls throws Unusable.
UnusableWhenNotified ==
    \A i \in DOMAIN step :
        (step[i].k = "emit"
           /\ step[i].name \in {"page-crash", "page-closed"}) =>
            /\ ~step[i].st.usable
            /\ (i < Len(step) /\ step[i + 1].k = "call") =>
                   /\ step[i + 1].out = "throw"
                   /\ step[i + 1].val = "Unusable"

\* ---------------------------------------------------------------- C26
\* what a listener does that calls openRoom back, or nothing
OpenReacts == {x \in Reacts : x.op \in {"none", "openRoom"}}

\* one controller: rooms opened, directly and from listeners, while the
\* page crashes or closes
OpeningNext ==
    \/ \E r \in Rooms, c \in Configs, x \in OpenReacts : OpenRoom(r, c, x)
    \/ \E i \in 1..MaxFlight, x \in OpenReacts : OpenSettles(i, x)
    \/ \E p \in 0..MaxRooms, x \in OpenReacts :
           PageEvent(p, "error", "crash", x)
    \/ \E p \in 0..MaxRooms, x \in OpenReacts : PageClose(p, x)

\* every roomOpener.open call of the controller settles in the end
SpecOpening ==
    /\ SessionInit
    /\ [][OpeningNext]_vars
    /\ WF_vars(\E i \in 1..MaxFlight, x \in OpenReacts : OpenSettles(i, x))

\* the handler run s is openRoom resuming on controller r, and it emitted
\* its notification with openRoomLock cleared
Cleared(s, r) ==
    /\ s # <<>>
    /\ s[1].k = "settle"
    /\ s[1].name = "roomOpener.open"
    /\ s[1].room = r
    /\ \E i \in Emits(s, r, "open-room-stop")
                  \cup Emits(s, r, "open-room-error") :
           ~s[i].st.openRoomLock

\* what a handler run does to the lock: with no roomOpener.open in flight
\* the lock is clear; openRoom resuming emits its notification with the
\* lock cleared and, when no listener opens again, leaves it clear; an
\* openRoom call is rejected with AlreadyOpening only on a usable
\* controller with another open in flight
LockSteps ==
    /\ \A r \in Rooms :
           /\ InFlight(r, "open") = {} => ~rooms[r].openRoomLock
           /\ {i \in 1..Len(flight') :
                  flight'[i].room = r /\ flight'[i].pc = "open"} = {}
                  => ~rooms'[r].openRoomLock
    /\ (/\ step' # <<>>
        /\ step'[1].k = "settle"
        /\ step'[1].name = "roomOpener.open") =>
           /\ Cleared(step', step'[1].room)
           /\ \A i \in Emits(step', step'[1].room, "open-room-stop")
                    \cup Emits(step', step'[1].room, "open-room-error") :
                  ~step'[i].st.openRoomLock
           /\ OpenCalls(step', "pass") = {} =>
                  ~rooms'[step'[1].room].openRoomLock
    /\ \A i \in OpenCalls(step', "throw") :
           step'[i].val = "AlreadyOpening" =>
               /\ step'[i].st.usable
               /\ Cardinality(InFlight(step'[i].room, "open"))
                      > (IF /\ step'[1].k = "settle"
                            /\ step'[1].name = "roomOpener.open"
                            /\ step'[1].room = step'[i].room
                         THEN 1 ELSE 0)

\* C26: provided every roomOpener.open call settles, a set openRoomLock is
\* followed by an openRoom call resuming and clearing it, when the open
\* resolved and when it rejected, also on a controller whose page crashed
\* or closed meanwhile.  With no roomOpener.open in flight openRoomLock is
\* false, and an openRoom call is rejected with AlreadyOpening only when
\* another open of the controller is in flight.
LockReleased ==
    /\ rooms[1].openRoomLock ~> Cleared(step, 1)
    /\ [][LockSteps]_vars

\* roomOpener.open rejected on a controller whose page crashed while the
\* open was in flight, and the lock is clear with no open in flight
LockReleasedWitness ==
    /\ Cleared(step, 1)
    /\ step[1].out = "reject"
    /\ ~step[1].st.usable
    /\ step[1].st.openRoomLock
    /\ ~rooms[1].openRoomLock
    /\ InFlight(1, "open") = {}

====
